---- MODULE Spec2Model ----
(***************************************************************************)
(* Indexing and retrieval pipelines of codesearch-backend over one         *)
(* Elasticsearch index: IndexingService (index_file, index_file_content,   *)
(* index_image, index_document, remove_file_from_index, recreate_index),   *)
(* search_service.search, es_manager.clean_index and                       *)
(* VisionService.describe_image.  Every store round trip of a handler is   *)
(* one atomic step; the computation between two round trips is folded into *)
(* the step that follows it.                                               *)
(***************************************************************************)
EXTENDS Integers, Sequences, FiniteSets, Bags, TLC

(***************************** bounds and constants ************************)

\* top_k values a search request is made with: 0 .. MaxTopK.
MaxTopK == 2

\* Line counts of the texts the chunker is run on by itself: 0 .. MaxLines.
MaxLines == 41

CHUNK_SIZE == 20
CANDIDATE_LIMIT == 100
max_retries == 3
retry_delay == 2

\* Request slots: the worker threads that may each hold one call.
Procs == {1, 2}

\* Python's None, for the string-valued fields and for the integer fields.
Null == "null"
NullLine == -1

(***************************** file type tables ****************************)

SUPPORTED_CODE_LANGUAGES == {".py"}
SUPPORTED_IMAGE_FORMATS == {".png", ".jpg", ".jpeg", ".gif", ".bmp", ".webp"}
SUPPORTED_EXTENSIONS == {".pdf", ".docx", ".doc", ".txt", ".md", ".markdown"}

Paths == {"a.py", "A.PY", "b.txt", "c.png", "d.xyz"}

\* os.path.splitext(path)[1] on the paths of the model.
SplitExt(path) ==
    CASE path = "a.py" -> ".py"
      [] path = "A.PY" -> ".PY"
      [] path = "b.txt" -> ".txt"
      [] path = "c.png" -> ".png"
      [] OTHER -> ".xyz"

\* str.lower() on the extensions of the model.
Lower(ext) == IF ext = ".PY" THEN ".py" ELSE ext

\* The router of index_file: image first, then document, then code, on the
\* lower-cased extension.
Route(path) ==
    LET ext == Lower(SplitExt(path))
    IN  IF ext \in SUPPORTED_IMAGE_FORMATS THEN "image"
        ELSE IF ext \in SUPPORTED_EXTENSIONS THEN "document"
        ELSE IF ext \in SUPPORTED_CODE_LANGUAGES THEN "code"
        ELSE "unsupported"

\* SUPPORTED_CODE_LANGUAGES.get(ext) of index_file_content: the extension is
\* looked up as written, without lower().
LangOf(path) ==
    IF SplitExt(path) \in SUPPORTED_CODE_LANGUAGES THEN "python" ELSE Null

(***************************** texts and chunking **************************)

\* A text is the sequence of its lines.  A line is blank when strip() empties it.
BlankLines == {"", " "}

\* Mutant: no text counts as blank.
NeverBlank(lines) == FALSE

\* not text.strip()
IsBlank(lines) == \A i \in 1..Len(lines) : lines[i] \in BlankLines

Rep(line, n) == [i \in 1..n |-> line]

Min(a, b) == IF a < b THEN a ELSE b

\* range(0, len(lines), CHUNK_SIZE): the offsets of the windows, in order.
WindowStarts(lines) ==
    [k \in 1..((Len(lines) + CHUNK_SIZE - 1) \div CHUNK_SIZE) |-> (k - 1) * CHUNK_SIZE]

\* Mutant: windows that run one line into the next.
WindowOverlap(lines, i) == SubSeq(lines, i + 1, Min(i + CHUNK_SIZE + 1, Len(lines)))

\* lines[i:i + CHUNK_SIZE]
Window(lines, i) == SubSeq(lines, i + 1, Min(i + CHUNK_SIZE, Len(lines)))

\* The model.encode stand-in: a deterministic map from a text to a vector.
Encode(lines) ==
    IF \E i \in 1..Len(lines) : lines[i] = "foo" THEN <<3, 1>>
    ELSE IF \E i \in 1..Len(lines) : lines[i] = "bar" THEN <<-1, 3>>
    ELSE <<1, -2>>

\* Mutant: line numbers counted from the start of the chunk.
MakeDocRelative(user, project, path, ctype, lang, cls, fn, content, ls, le) ==
    [user_id |-> user, project_name |-> project, file_path |-> path,
     content_type |-> ctype, language |-> lang,
     class_name |-> cls, function_name |-> fn,
     code_content |-> content, code_embedding |-> <<1, -2>>,
     line_start |-> 0, line_end |-> Len(content) - 1]

\* The document assembled for one chunk.
MakeDoc(user, project, path, ctype, lang, cls, fn, content, ls, le) ==
    [user_id |-> user, project_name |-> project, file_path |-> path,
     content_type |-> ctype, language |-> lang,
     class_name |-> cls, function_name |-> fn,
     code_content |-> content, code_embedding |-> Encode(content),
     line_start |-> ls, line_end |-> le]

\* "if not chunk_content.strip(): continue": the blank chunks are skipped.
RECURSIVE DropBlank(_)
DropBlank(ds) ==
    IF ds = <<>> THEN <<>>
    ELSE IF IsBlank(Head(ds).code_content) THEN DropBlank(Tail(ds))
    ELSE <<Head(ds)>> \o DropBlank(Tail(ds))

\* The documents of one AST node, in the order index_file_content writes them.
NodeDocs(user, project, path, node) ==
    LET lines == node.content
        starts == WindowStarts(lines)
        all == [k \in 1..Len(starts) |->
                   MakeDoc(user, project, path, "code", LangOf(path),
                           IF node.type = "class" THEN node.name ELSE Null,
                           IF node.type = "function" THEN node.name ELSE Null,
                           Window(lines, starts[k]),
                           node.start_line + starts[k],
                           node.start_line + starts[k] + Len(Window(lines, starts[k])) - 1)]
    IN  DropBlank(all)

RECURSIVE CodeDocs(_, _, _, _)
CodeDocs(user, project, path, nodes) ==
    IF nodes = <<>> THEN <<>>
    ELSE NodeDocs(user, project, path, Head(nodes))
            \o CodeDocs(user, project, path, Tail(nodes))

\* The documents of an extracted text, in the order index_document writes them.
DocumentDocs(user, project, path, lines) ==
    LET starts == WindowStarts(lines)
        all == [k \in 1..Len(starts) |->
                   MakeDoc(user, project, path, "document", Null, Null, Null,
                           Window(lines, starts[k]),
                           starts[k],
                           starts[k] + Len(Window(lines, starts[k])) - 1)]
    IN  DropBlank(all)

\* Mutant: an image document numbered like a one-line text.
ImageDocNumbered(user, project, path, caption) ==
    MakeDoc(user, project, path, "image", Null, Null, Null, <<caption>>, 0, 0)

\* The single document of an image: the caption is the content, no line numbers.
ImageDoc(user, project, path, caption) ==
    MakeDoc(user, project, path, "image", Null, Null, Null,
            <<caption>>, NullLine, NullLine)

(***************************** inputs *************************************)

Users == {"u1", "u2"}
Projects == {"p1", "p2"}

\* What the collaborators make of an uploaded payload: the nodes the parser
\* captures, the lines the extractor returns, or an exception from either
\* (corrupt) -- a corrupt image is one PIL cannot open.
Foo25 ==
    [id |-> "foo25", corrupt |-> FALSE,
     nodes |-> <<[name |-> "foo", type |-> "function",
                  content |-> <<"foo">> \o Rep("x", 24),
                  start_line |-> 0, end_line |-> 24]>>,
     text |-> <<"foo">> \o Rep("x", 24)]

Small ==
    [id |-> "small", corrupt |-> FALSE,
     nodes |-> <<[name |-> "C", type |-> "class",
                  content |-> <<"bar", "", "x">>,
                  start_line |-> 2, end_line |-> 4]>>,
     text |-> <<"x", "", "bar", "", "x">>]

Blank ==
    [id |-> "blank", corrupt |-> FALSE, nodes |-> <<>>, text |-> <<"", " ">>]

Corrupt ==
    [id |-> "corrupt", corrupt |-> TRUE, nodes |-> <<>>, text |-> <<>>]

Payloads == {Foo25, Small, Blank, Corrupt}

\* The captions the vision model may answer with, after strip().
Captions == {"foo", ""}

\* The indexing requests of the model: in one scope a code file and a
\* document with every payload, an image that PIL can or cannot open, an
\* upper-case code path and an unsupported path; one file in each of two
\* further scopes.
IndexArgs ==
    {[user |-> "u1", project |-> "p1", path |-> f, payload |-> b] :
        f \in {"a.py", "b.txt"}, b \in Payloads}
    \cup {[user |-> "u1", project |-> "p1", path |-> "c.png", payload |-> b] :
            b \in {Small, Corrupt}}
    \cup {[user |-> "u1", project |-> "p1", path |-> f, payload |-> Small] :
            f \in {"A.PY", "d.xyz"}}
    \cup {[user |-> "u1", project |-> "p2", path |-> "a.py", payload |-> Small],
          [user |-> "u2", project |-> "p1", path |-> "a.py", payload |-> Small]}

Queries == {"foo", "zzz"}

(***************************** state ***************************************)

VARIABLES
    indexExists,   \* whether the index ES_INDEX exists in the store
    docs,          \* the documents of the index, a bag (the store assigns the ids)
    pc,            \* per slot: the step its call is at
    req,           \* per slot: the call and its arguments
    todo,          \* per slot: the documents the call has still to embed and write
    ret,           \* per slot: what the call gave its caller
    hist           \* per slot: what the call has done so far (for the properties)

vars == <<indexExists, docs, pc, req, todo, ret, hist>>

NoReq == [op |-> "none"]
NoRet == [status |-> "none", hits |-> <<>>]

\* pre: the store when the call began; purge: the outcome of its
\* delete_by_query; written: its successful es.index calls; fail: the step
\* that raised; down: a store request of the call found the store
\* unavailable; attempts, waits: the provider calls and sleeps of
\* describe_image, outcomes: what each provider call ended with; s1, s2, f1,
\* f2: the outcome and the filter of each search stage; requests: the
\* es.search calls of a search; fetched: the hits of its Stage-1 fetch;
\* answered: the stored documents behind the hits of its Stage-2 answer;
\* peer: what the call in the other slot was at, at the time of this call's
\* purge or Stage-1 fetch.
NoPeer == [req |-> NoReq, pc |-> "idle", written |-> 0, purge |-> "none"]

NoHist ==
    [pre |-> EmptyBag, preExists |-> FALSE, purge |-> "none", written |-> 0,
     fail |-> "none", down |-> FALSE, attempts |-> 0, waits |-> <<>>,
     outcomes |-> <<>>,
     s1 |-> "none", s2 |-> "none", f1 |-> <<>>, f2 |-> <<>>,
     requests |-> 0, fetched |-> EmptyBag, answered |-> EmptyBag,
     peer |-> NoPeer]

\* The state after IndexingService.__init__ on an empty store:
\* _create_index_if_not_exists has created the index.
Init ==
    /\ indexExists = TRUE
    /\ docs = EmptyBag
    /\ pc = [p \in Procs |-> "idle"]
    /\ req = [p \in Procs |-> NoReq]
    /\ todo = [p \in Procs |-> <<>>]
    /\ ret = [p \in Procs |-> NoRet]
    /\ hist = [p \in Procs |-> NoHist]

(***************************** the store ***********************************)

\* Mutant: a purge that takes only code chunks.
FileFilterCodeOnly(d, user, project, path) ==
    /\ d.user_id = user
    /\ d.project_name = project
    /\ d.file_path = path
    /\ d.content_type = "code"

\* Mutant: a purge that matches the file in every project of the user.
FileFilterAnyProject(d, user, project, path) ==
    /\ d.user_id = user
    /\ d.file_path = path

\* The term filters of remove_file_from_index.
FileFilter(d, user, project, path) ==
    /\ d.user_id = user
    /\ d.project_name = project
    /\ d.file_path = path

\* The documents of bag b that are in the set hit, with their copies: what a
\* query on the index matches.
Matching(b, hit) == [d \in (hit \cap BagToSet(b)) |-> b[d]]

\* es.delete_by_query: the bag b without the documents the query matches.
DeleteByQuery(b, hit) == Matching(b, BagToSet(b) \ hit)

\* The bag of the elements of a sequence.
RECURSIVE SeqToBag(_)
SeqToBag(s) == IF s = <<>> THEN EmptyBag ELSE SetToBag({Head(s)}) (+) SeqToBag(Tail(s))

\* Mutant: a write under an id made of the document, which replaces a copy
\* of it that is there.
UpsertById(b, d) == IF d \in BagToSet(b) THEN b ELSE b (+) SetToBag({d})

\* Mutant: a write that stores the document twice.
UpsertTwice(b, d) == b (+) SetToBag({d}) (+) SetToBag({d})

\* es.index(document=doc): one more document, under an id of its own.
Upsert(b, d) == b (+) SetToBag({d})

\* Mutant: a purge that takes every file of the project.
RemoveProject(b, user, project, path) ==
    DeleteByQuery(b, {d \in BagToSet(b) : d.user_id = user /\ d.project_name = project})

\* Mutant: a purge that deletes nothing.
RemoveNothing(b, user, project, path) == b

\* self.es.delete_by_query of remove_file_from_index.
RemoveFile(b, user, project, path) ==
    DeleteByQuery(b, {d \in BagToSet(b) : FileFilter(d, user, project, path)})

(***************************** indexing ************************************)

\* The call in the slot that is not p, as it is now.
Peer(p) ==
    LET q == CHOOSE q \in Procs : q # p
    IN  [req |-> req[q], pc |-> pc[q], written |-> hist[q].written,
         purge |-> hist[q].purge]

\* The history of a call that begins now.
NewHist == [NoHist EXCEPT !.pre = docs, !.preExists = indexExists]

Start(p, r, h) ==
    /\ req' = [req EXCEPT ![p] = r]
    /\ hist' = [hist EXCEPT ![p] = h]

Finish(p, status, h) ==
    /\ pc' = [pc EXCEPT ![p] = "done"]
    /\ ret' = [ret EXCEPT ![p] = [status |-> status, hits |-> <<>>]]
    /\ hist' = [hist EXCEPT ![p] = h]

\* Mutant: a document is extracted first and never purged.
FirstStepNoPurge(kind) == IF kind = "document" THEN "extract" ELSE "purge"

\* The first statement of index_file_content, index_image and index_document
\* is the purge of the file's documents.
FirstStep(kind) == "purge"

\* index_file: route on the lower-cased extension; an unsupported type raises
\* ValueError before anything else is done.
BeginIndexFile(p, a) ==
    /\ pc[p] = "idle"
    /\ Start(p, [op |-> "index_file", kind |-> Route(a.path), user |-> a.user,
                 project |-> a.project, path |-> a.path, payload |-> a.payload],
             IF Route(a.path) = "unsupported"
             THEN [NewHist EXCEPT !.fail = "route"] ELSE NewHist)
    /\ IF Route(a.path) = "unsupported"
       THEN /\ pc' = [pc EXCEPT ![p] = "done"]
            /\ ret' = [ret EXCEPT ![p] = [status |-> "ValueError", hits |-> <<>>]]
       ELSE /\ pc' = [pc EXCEPT ![p] = FirstStep(Route(a.path))]
            /\ ret' = ret
    /\ UNCHANGED <<indexExists, docs, todo>>

\* index_file_content called by the /index handler: no routing, the purge is
\* its first statement.
BeginIndexFileContent(p, a) ==
    /\ pc[p] = "idle"
    /\ Start(p, [op |-> "index_file_content", kind |-> "code", user |-> a.user,
                 project |-> a.project, path |-> a.path, payload |-> a.payload],
             NewHist)
    /\ pc' = [pc EXCEPT ![p] = FirstStep("code")]
    /\ UNCHANGED <<indexExists, docs, todo, ret>>

\* Where a call goes after its purge.  index_file_content returns when its own
\* extension lookup finds no language.
AfterPurge(r) ==
    CASE r.kind = "image" -> "describe"
      [] r.kind = "document" -> "extract"
      [] r.kind = "code" /\ LangOf(r.path) # Null -> "parse"
      [] OTHER -> "return"

\* remove_file_from_index, the first statement of index_file_content,
\* index_image and index_document, outside their try blocks: an exception of
\* the store (unavailable, or no such index) reaches the caller.
Purge(p) ==
    /\ pc[p] = "purge"
    /\ \E up \in BOOLEAN :
          IF up /\ indexExists
          THEN /\ docs' = RemoveFile(docs, req[p].user, req[p].project, req[p].path)
               /\ IF AfterPurge(req[p]) = "return"
                  THEN Finish(p, "ok", [hist[p] EXCEPT !.purge = "ok", !.peer = Peer(p)])
                  ELSE /\ pc' = [pc EXCEPT ![p] = AfterPurge(req[p])]
                       /\ hist' = [hist EXCEPT ![p] =
                             [hist[p] EXCEPT !.purge = "ok", !.peer = Peer(p)]]
                       /\ ret' = ret
          ELSE /\ docs' = docs
               /\ Finish(p, "error", [hist[p] EXCEPT !.purge = "raised", !.fail = "purge",
                                                     !.down = ~up])
    /\ UNCHANGED <<indexExists, req, todo>>

\* What index_file_content gives its caller when its try block raised: the
\* except clause prints and the function returns normally.
CodeFailure == "ok"

\* What index_document and index_image give their caller when their try
\* block raised: the except clause re-raises.
OtherFailure == "error"

FailureStatus(r) == IF r.kind = "code" THEN CodeFailure ELSE OtherFailure

\* The try block of index_file_content up to the chunk loop: parse, collect
\* the nodes, chunk them.
Parse(p) ==
    /\ pc[p] = "parse"
    /\ IF req[p].payload.corrupt
       THEN /\ Finish(p, FailureStatus(req[p]), [hist[p] EXCEPT !.fail = "parse"])
            /\ todo' = todo
       ELSE LET ds == CodeDocs(req[p].user, req[p].project, req[p].path,
                               req[p].payload.nodes)
            IN  /\ todo' = [todo EXCEPT ![p] = ds]
                /\ IF ds = <<>>
                   THEN Finish(p, "ok", hist[p])
                   ELSE /\ pc' = [pc EXCEPT ![p] = "write"]
                        /\ UNCHANGED <<ret, hist>>
    /\ UNCHANGED <<indexExists, docs, req>>

\* The try block of index_document up to the chunk loop: extract the text,
\* return on a blank text, chunk it.
Extract(p) ==
    /\ pc[p] = "extract"
    /\ IF req[p].payload.corrupt
       THEN /\ Finish(p, FailureStatus(req[p]), [hist[p] EXCEPT !.fail = "extract"])
            /\ todo' = todo
       ELSE IF IsBlank(req[p].payload.text)
       THEN /\ Finish(p, "ok", hist[p])
            /\ todo' = todo
       ELSE /\ todo' = [todo EXCEPT ![p] =
                           DocumentDocs(req[p].user, req[p].project, req[p].path,
                                        req[p].payload.text)]
            /\ pc' = [pc EXCEPT ![p] = "write"]
            /\ UNCHANGED <<ret, hist>>
    /\ UNCHANGED <<indexExists, docs, req>>

\* Mutant: a backoff that does not grow.
NoBackoff(n) == 1

\* 2 ** n
RECURSIVE Pow2(_)
Pow2(n) == IF n = 0 THEN 1 ELSE 2 * Pow2(n - 1)

\* One pass of the retry loop of describe_image (a corrupt image raises in
\* _optimize_image, before the loop).  A retryable failure sleeps and goes
\* round again unless this was the last attempt; any other failure raises.
Describe(p) ==
    /\ pc[p] = "describe"
    /\ LET h == hist[p]
           attempt == h.attempts
       IN  IF req[p].payload.corrupt
           THEN /\ Finish(p, FailureStatus(req[p]), [h EXCEPT !.fail = "describe"])
                /\ todo' = todo
           ELSE \E outcome \in {"caption", "retryable", "other"} :
                  CASE outcome = "caption" ->
                         \E c \in Captions :
                            /\ todo' = [todo EXCEPT ![p] =
                                  <<ImageDoc(req[p].user, req[p].project, req[p].path, c)>>]
                            /\ pc' = [pc EXCEPT ![p] = "write"]
                            /\ hist' = [hist EXCEPT ![p] =
                                  [h EXCEPT !.attempts = attempt + 1,
                                            !.outcomes = Append(h.outcomes, outcome)]]
                            /\ ret' = ret
                    [] outcome = "retryable" /\ attempt < max_retries - 1 ->
                         /\ hist' = [hist EXCEPT ![p] =
                               [h EXCEPT !.attempts = attempt + 1,
                                         !.outcomes = Append(h.outcomes, outcome),
                                         !.waits = Append(h.waits, retry_delay * Pow2(attempt))]]
                         /\ UNCHANGED <<pc, ret, todo>>
                    [] OTHER ->
                         /\ Finish(p, FailureStatus(req[p]),
                                   [h EXCEPT !.attempts = attempt + 1,
                                             !.outcomes = Append(h.outcomes, outcome),
                                             !.fail = "describe"])
                         /\ todo' = todo
    /\ UNCHANGED <<indexExists, docs, req>>

\* One pass of a chunk loop: model.encode and es.index of the next chunk.
\* Either may raise; the loop is then left with the rest unwritten.
Write(p) ==
    /\ pc[p] = "write"
    /\ \E ok \in BOOLEAN :
          IF ok
          THEN /\ docs' = Upsert(docs, Head(todo[p]))
               /\ indexExists' = TRUE
               /\ todo' = [todo EXCEPT ![p] = Tail(todo[p])]
               /\ IF Tail(todo[p]) = <<>>
                  THEN Finish(p, "ok", [hist[p] EXCEPT !.written = @ + 1])
                  ELSE /\ hist' = [hist EXCEPT ![p].written = @ + 1]
                       /\ UNCHANGED <<pc, ret>>
          ELSE /\ Finish(p, FailureStatus(req[p]), [hist[p] EXCEPT !.fail = "chunk"])
               /\ UNCHANGED <<indexExists, docs, todo>>
    /\ req' = req

\* The handler returns to its caller; the slot is free again.
Return(p) ==
    /\ pc[p] = "done"
    /\ pc' = [pc EXCEPT ![p] = "idle"]
    /\ req' = [req EXCEPT ![p] = NoReq]
    /\ todo' = [todo EXCEPT ![p] = <<>>]
    /\ ret' = [ret EXCEPT ![p] = NoRet]
    /\ hist' = [hist EXCEPT ![p] = NoHist]
    /\ UNCHANGED <<indexExists, docs>>

(***************************** search **************************************)

ThresholdNum == 1
ThresholdDen == 10

\* Mutant: a filter that ignores the project.
ScopeFilterUserOnly(d, user, project) == d.user_id = user

\* filters of search and of clean_index: user_id always, project_name when one
\* was given.
ScopeFilter(d, user, project) ==
    /\ d.user_id = user
    /\ project # Null => d.project_name = project

\* Mutant: a fetch that filters on the user alone.
Stage1FilterUserOnly(r) == [user |-> r.user, project |-> Null]

\* bool_filter, the query of the Stage-1 fetch.
Stage1Filter(r) == [user |-> r.user, project |-> r.project]

\* Mutant: a text query that filters on the user alone.
Stage2FilterUserOnly(r) == [user |-> r.user, project |-> Null]

\* filters, the filter clause of the Stage-2 text query.
Stage2Filter(r) == [user |-> r.user, project |-> r.project]

\* The orders in which the store may return the documents of a bag.
RECURSIVE Orders(_)
Orders(b) ==
    IF BagToSet(b) = {} THEN {<<>>}
    ELSE UNION {{<<d>> \o s : s \in Orders(b (-) SetToBag({d}))} : d \in BagToSet(b)}

\* Mutant: a cut that keeps everything.
TakeAll(s, n) == s

\* The first n elements of s, or all of s when it has fewer.
Take(s, n) == SubSeq(s, 1, Min(n, Len(s)))

\* s[:k] of Python, k of either sign.
Slice(s, k) ==
    IF k >= 0 THEN Take(s, k)
    ELSE SubSeq(s, 1, IF Len(s) + k > 0 THEN Len(s) + k ELSE 0)

\* The _source of a hit: the requested fields the document has.
Source(d, fields) == [f \in (fields \cap DOMAIN d) |-> d[f]]

Stage1Fields ==
    {"file_path", "code_content", "line_start", "line_end", "language",
     "user_id", "project_name", "code_embedding"}

Stage2Fields ==
    {"file_path", "code_content", "line_start", "line_end", "language"}

Dot(a, b) == a[1] * b[1] + a[2] * b[2]

\* np.dot(q, d) / (norm(q) * norm(d)), kept exact as num / sqrt(den2).
Cosine(q, d) == [num |-> Dot(q, d), den2 |-> Dot(q, q) * Dot(d, d)]

\* a >= b for two similarities.
ScoreGe(a, b) ==
    IF a.num >= 0
    THEN IF b.num >= 0
         THEN a.num * a.num * b.den2 >= b.num * b.num * a.den2
         ELSE TRUE
    ELSE IF b.num >= 0
         THEN FALSE
         ELSE a.num * a.num * b.den2 <= b.num * b.num * a.den2

\* score >= MIN_SIMILARITY_THRESHOLD
AboveThreshold(a) ==
    /\ a.num > 0
    /\ ThresholdDen * ThresholdDen * a.num * a.num >= ThresholdNum * ThresholdNum * a.den2

\* similarities.sort(key=score, reverse=True): stable, equal scores keep
\* their order.
RECURSIVE InsertByScore(_, _)
InsertByScore(sorted, h) ==
    IF sorted = <<>> THEN <<h>>
    ELSE IF ScoreGe(Head(sorted).score, h.score)
         THEN <<Head(sorted)>> \o InsertByScore(Tail(sorted), h)
         ELSE <<h>> \o sorted

\* Mutant: a ranking that leaves the candidates in the order of the fetch.
NoSort(s) == s

RECURSIVE SortByScore(_)
SortByScore(s) ==
    IF s = <<>> THEN <<>>
    ELSE InsertByScore(SortByScore(SubSeq(s, 1, Len(s) - 1)), s[Len(s)])

\* Mutant: a ranking that keeps the candidates under the threshold.
KeepAll(hs) == hs

\* [(hit, score) for hit, score in similarities if score >= threshold]
RECURSIVE KeepAbove(_)
KeepAbove(hs) ==
    IF hs = <<>> THEN <<>>
    ELSE IF AboveThreshold(Head(hs).score) THEN <<Head(hs)>> \o KeepAbove(Tail(hs))
    ELSE KeepAbove(Tail(hs))

\* Mutant: the embedding stays in the _source of a returned hit.
KeepEmbedding(src) == src

\* del hit['_source']['code_embedding']
DelEmbedding(src) == Source(src, DOMAIN src \ {"code_embedding"})

\* hit['_source']['code_embedding'] raises KeyError on a hit without it.
RankRaises(hits) == \E i \in 1..Len(hits) : "code_embedding" \notin DOMAIN hits[i]

\* The ranking of Stage 1: score, sort, drop what is under the threshold, cut
\* to top_k, delete the embedding from what is returned.
Rank(hits, query, top_k) ==
    LET q == Encode(<<query>>)
        scored == [i \in 1..Len(hits) |->
                     [source |-> hits[i], score |-> Cosine(q, hits[i].code_embedding)]]
        filtered == KeepAbove(SortByScore(scored))
        top == Slice(filtered, top_k)
    IN  [i \in 1..Len(top) |->
            [source |-> DelEmbedding(top[i].source),
             score |-> top[i].score]]

\* multi_match of the query on code_content, function_name and class_name.
LexMatch(d, query) ==
    \/ \E i \in 1..Len(d.code_content) : d.code_content[i] = query
    \/ d.function_name = query
    \/ d.class_name = query

BeginSearch(p, user, project, query, top_k) ==
    /\ pc[p] = "idle"
    /\ Start(p, [op |-> "search", user |-> user, project |-> project,
                 query |-> query, top_k |-> top_k], NewHist)
    /\ pc' = [pc EXCEPT ![p] = "stage1"]
    /\ UNCHANGED <<indexExists, docs, todo, ret>>

\* Mutant: the text query runs after every Stage 1.
AfterStage1Always(outcome) == "stage2"

\* "if response is None": Stage 2 runs when the try block of Stage 1 raised,
\* and search returns the Stage-1 response otherwise.
AfterStage1(outcome) == IF outcome = "ok" THEN "done" ELSE "stage2"

\* The try block of Stage 1: the fetch and the ranking.  Whatever raises in
\* it leaves response = None.
Stage1(p) ==
    /\ pc[p] = "stage1"
    /\ LET r == req[p]
           f == Stage1Filter(r)
           h == [hist[p] EXCEPT !.f1 = f, !.requests = @ + 1, !.peer = Peer(p)]
       IN  \E up \in BOOLEAN :
             IF ~(up /\ indexExists)
             THEN /\ hist' = [hist EXCEPT ![p] = [h EXCEPT !.s1 = "fetch_raised",
                                                            !.down = ~up]]
                  /\ pc' = [pc EXCEPT ![p] = AfterStage1("fetch_raised")]
                  /\ ret' = ret
             ELSE \E order \in Orders(Matching(docs,
                        {d \in BagToSet(docs) : ScopeFilter(d, f.user, f.project)})) :
                    LET hits == [i \in 1..Len(Take(order, CANDIDATE_LIMIT)) |->
                                    Source(order[i], Stage1Fields)]
                    IN  IF hits # <<>> /\ RankRaises(hits)
                        THEN /\ hist' = [hist EXCEPT ![p] =
                                   [h EXCEPT !.s1 = "rank_raised", !.fetched = SeqToBag(hits)]]
                             /\ pc' = [pc EXCEPT ![p] = AfterStage1("rank_raised")]
                             /\ ret' = ret
                        ELSE /\ hist' = [hist EXCEPT ![p] =
                                   [h EXCEPT !.s1 = "ok", !.fetched = SeqToBag(hits)]]
                             /\ pc' = [pc EXCEPT ![p] = AfterStage1("ok")]
                             /\ ret' = [ret EXCEPT ![p] =
                                   [status |-> "ok",
                                    hits |-> IF hits = <<>> THEN <<>>
                                             ELSE Rank(hits, r.query, r.top_k)]]
    /\ UNCHANGED <<indexExists, docs, req, todo>>

\* Mutant: a text query that raised is issued again.
AfterStage2Retry(outcome) == IF outcome = "ok" THEN "done" ELSE "stage2"

\* Both branches of Stage 2 end the call: "return None" in the except clause,
\* "return response" after the query.  There is no third tier.
AfterStage2(outcome) == "done"

\* Stage 2, entered with response = None: the text query, size = top_k, ranked
\* by the store.  If it raises, search returns None.
Stage2(p) ==
    /\ pc[p] = "stage2"
    /\ LET r == req[p]
           f == Stage2Filter(r)
           h == [hist[p] EXCEPT !.f2 = f, !.requests = @ + 1]
       IN  \E up \in BOOLEAN :
             IF ~(up /\ indexExists)
             THEN /\ hist' = [hist EXCEPT ![p] = [h EXCEPT !.s2 = "raised", !.down = ~up]]
                  /\ ret' = [ret EXCEPT ![p] = [status |-> "failed", hits |-> <<>>]]
                  /\ pc' = [pc EXCEPT ![p] = AfterStage2("raised")]
             ELSE \E order \in Orders(Matching(docs,
                        {d \in BagToSet(docs) : /\ ScopeFilter(d, f.user, f.project)
                                                /\ LexMatch(d, r.query)})) :
                    LET top == Take(order, r.top_k)
                    IN  /\ hist' = [hist EXCEPT ![p] =
                               [h EXCEPT !.s2 = "ok", !.answered = SeqToBag(top)]]
                        /\ pc' = [pc EXCEPT ![p] = AfterStage2("ok")]
                        /\ ret' = [ret EXCEPT ![p] =
                              [status |-> "ok",
                               hits |-> [i \in 1..Len(top) |->
                                           [source |-> Source(top[i], Stage2Fields),
                                            score |-> "bm25"]]]]
    /\ UNCHANGED <<indexExists, docs, req, todo>>

(***************************** lifecycle ***********************************)

\* Mutant: a delete of the index that leaves it as it is.
KeepIndex == [exists |-> indexExists, docs |-> docs]

\* es.indices.delete: the index and all it holds are gone.
DropIndex == [exists |-> FALSE, docs |-> EmptyBag]

\* Mutant: an index is created, empty, whether or not there is one.
EnsureIndexAlwaysCreate(st) == [exists |-> TRUE, docs |-> EmptyBag]

\* _create_index_if_not_exists on a store [exists, docs]: the index is
\* created, empty, when there is none; an index that exists is left as it is.
EnsureIndex(st) == IF st.exists THEN st ELSE [exists |-> TRUE, docs |-> EmptyBag]

Store == [exists |-> indexExists, docs |-> docs]

\* clean_index.  delete_all drops the index when it exists; otherwise a user
\* is required and the documents of the user (of the project, when one is
\* given) are deleted by query.
Clean(p, user, project, delete_all) ==
    /\ pc[p] = "idle"
    /\ pc' = [pc EXCEPT ![p] = "done"]
    /\ req' = [req EXCEPT ![p] = [op |-> "clean", user |-> user, project |-> project,
                                   delete_all |-> delete_all]]
    /\ \E up \in BOOLEAN :
          LET st == IF delete_all
                    THEN IF up /\ indexExists THEN DropIndex ELSE Store
                    ELSE IF user # Null /\ up /\ indexExists
                    THEN [exists |-> TRUE,
                          docs |-> DeleteByQuery(docs,
                                      {d \in BagToSet(docs) : ScopeFilter(d, user, project)})]
                    ELSE Store
              status == IF delete_all THEN (IF up THEN "ok" ELSE "error")
                        ELSE IF user = Null THEN "ValueError"
                        ELSE IF up /\ indexExists THEN "ok" ELSE "error"
          IN  /\ indexExists' = st.exists
              /\ docs' = st.docs
              /\ ret' = [ret EXCEPT ![p] = [status |-> status, hits |-> <<>>]]
              /\ hist' = [hist EXCEPT ![p] =
                    [NewHist EXCEPT !.down = ~up /\ (delete_all \/ user # Null)]]
    /\ todo' = todo

\* recreate_index: delete the index if it exists, then create it.
Recreate(p) ==
    /\ pc[p] = "idle"
    /\ Start(p, [op |-> "recreate"], NewHist)
    /\ pc' = [pc EXCEPT ![p] = "done"]
    /\ LET st == EnsureIndex(IF indexExists THEN DropIndex ELSE Store)
       IN  /\ indexExists' = st.exists
           /\ docs' = st.docs
    /\ ret' = [ret EXCEPT ![p] = [status |-> "ok", hits |-> <<>>]]
    /\ todo' = todo

\* A restart of the process while no call is in flight: the module-level
\* IndexingService() runs _create_index_if_not_exists.
Restart ==
    /\ \A p \in Procs : pc[p] = "idle"
    /\ LET st == EnsureIndex(Store)
       IN  /\ indexExists' = st.exists
           /\ docs' = st.docs
    /\ UNCHANGED <<pc, req, todo, ret, hist>>

(***************************** specifications ******************************)

TopKs == 0..MaxTopK

Step(p) ==
    \/ \E a \in IndexArgs : BeginIndexFile(p, a)
    \/ \E a \in IndexArgs : BeginIndexFileContent(p, a)
    \/ Purge(p)
    \/ Parse(p)
    \/ Extract(p)
    \/ Describe(p)
    \/ Write(p)
    \/ \E u \in Users, pr \in Projects \cup {Null}, q \in Queries, k \in TopKs :
          BeginSearch(p, u, pr, q, k)
    \/ Stage1(p)
    \/ Stage2(p)
    \/ \E u \in Users \cup {Null}, pr \in Projects \cup {Null}, all \in BOOLEAN :
          Clean(p, u, pr, all)
    \/ Recreate(p)
    \/ Return(p)

\* One caller: its calls run one after the other, each to its end, in slot 1.
Next == Restart \/ Step(1)

Spec == Init /\ [][Next]_vars

\* An index that outlives the process: __init__ leaves an index that exists as
\* it is, with what it holds.  LegacyDoc is a document of the index written
\* without the code_embedding field.
LegacyDoc ==
    [user_id |-> "u1", project_name |-> "p1", file_path |-> "a.py",
     content_type |-> "code", language |-> "python",
     class_name |-> Null, function_name |-> "foo",
     code_content |-> <<"foo">>, line_start |-> 0, line_end |-> 0]

InitLegacy ==
    /\ indexExists = TRUE
    /\ docs = SetToBag({LegacyDoc})
    /\ pc = [p \in Procs |-> "idle"]
    /\ req = [p \in Procs |-> NoReq]
    /\ todo = [p \in Procs |-> <<>>]
    /\ ret = [p \in Procs |-> NoRet]
    /\ hist = [p \in Procs |-> NoHist]

SpecLegacy == InitLegacy /\ [][Next]_vars

\* The caller's thread runs on: a provider call of describe_image returns or
\* raises, and time.sleep returns, so a pass of the retry loop that can be
\* taken is taken.
SpecFair == Spec /\ WF_vars(Describe(1))

(***************************** two calls at once ***************************)

\* The calls that race: two contents for a code file and for a document of
\* one project, and a search of that project.
RaceArgs ==
    {[user |-> "u1", project |-> "p1", path |-> f, payload |-> b] :
        f \in {"a.py", "b.txt"}, b \in {Foo25, Small}}

\* What the store may hold when the two calls arrive: nothing, or what an
\* earlier indexing of one of the files has left.
RaceStores ==
    {EmptyBag,
     SeqToBag(CodeDocs("u1", "p1", "a.py", Small.nodes)),
     SeqToBag(DocumentDocs("u1", "p1", "b.txt", Foo25.text))}

InitRace ==
    /\ indexExists = TRUE
    /\ docs \in RaceStores
    /\ pc = [p \in Procs |-> "idle"]
    /\ req = [p \in Procs |-> NoReq]
    /\ todo = [p \in Procs |-> <<>>]
    /\ ret = [p \in Procs |-> NoRet]
    /\ hist = [p \in Procs |-> NoHist]

\* The handlers are plain functions run on worker threads, with no lock:
\* each slot runs one call, and the store requests of the two interleave in
\* any order.
StepRace(p) ==
    \/ \E a \in RaceArgs : BeginIndexFile(p, a)
    \/ \E a \in {x \in RaceArgs : x.path = "a.py"} : BeginIndexFileContent(p, a)
    \/ Purge(p)
    \/ Parse(p)
    \/ Extract(p)
    \/ Write(p)
    \/ BeginSearch(p, "u1", "p1", "foo", MaxTopK)
    \/ Stage1(p)
    \/ Stage2(p)

NextRace == \E p \in Procs : StepRace(p)

SpecRace == InitRace /\ [][NextRace]_vars

(***************************** the chunker by itself ***********************)

\* Texts of n lines: one of lines "x", "bar" and "" in turn, one of
\* CHUNK_SIZE blank lines followed by lines "x".
MixedText(n) ==
    [i \in 1..n |-> IF i % 3 = 1 THEN "x" ELSE IF i % 3 = 2 THEN "bar" ELSE ""]

BlankHeadText(n) == [i \in 1..n |-> IF i <= CHUNK_SIZE THEN "" ELSE "x"]

\* A text of n lines "x" whose second window is blank.
BlankMiddleText(n) ==
    [i \in 1..n |-> IF i > CHUNK_SIZE /\ i <= 2 * CHUNK_SIZE THEN "" ELSE "x"]

\* The line lists the chunk loops are run on: the lines of a document, or of
\* a node of a code file (a function foo, a class C), which starts at line
\* start_line of the file.
ChunkInputs ==
    {[op |-> "chunk", kind |-> "document", path |-> "b.txt", lines |-> t,
      name |-> Null, type |-> Null, start_line |-> 0] :
        t \in {MixedText(n) : n \in 0..MaxLines} \cup {BlankHeadText(n) : n \in 0..MaxLines}}
    \cup {[op |-> "chunk", kind |-> "code", path |-> "a.py", lines |-> MixedText(n),
            name |-> "foo", type |-> "function", start_line |-> 2] : n \in 1..MaxLines}
    \cup {[op |-> "chunk", kind |-> "code", path |-> "a.py", lines |-> BlankMiddleText(n),
            name |-> "C", type |-> "class", start_line |-> 0] : n \in 1..MaxLines}

\* The documents the chunk loop of request r writes, in order.
ChunkDocs(r) ==
    IF r.kind = "code"
    THEN NodeDocs("u1", "p1", r.path,
                  [name |-> r.name, type |-> r.type, content |-> r.lines,
                   start_line |-> r.start_line,
                   end_line |-> r.start_line + Len(r.lines) - 1])
    ELSE DocumentDocs("u1", "p1", r.path, r.lines)

\* The chunk loop is about to run in slot 1 on one of the inputs; todo[1]
\* collects its windows.
InitChunk ==
    /\ indexExists = TRUE
    /\ docs = EmptyBag
    /\ pc = [p \in Procs |-> IF p = 1 THEN "chunk" ELSE "idle"]
    /\ req \in {[p \in Procs |-> IF p = 1 THEN r ELSE NoReq] : r \in ChunkInputs}
    /\ todo = [p \in Procs |-> <<>>]
    /\ ret = [p \in Procs |-> NoRet]
    /\ hist = [p \in Procs |-> NoHist]

\* One pass of "for i in range(0, len(lines), CHUNK_SIZE)": the window
\* lines[i:i + CHUNK_SIZE], whether the loop skips it as blank, and the line
\* numbers a document of it gets.
ChunkWindow(p) ==
    /\ pc[p] = "chunk"
    /\ Len(todo[p]) < Len(WindowStarts(req[p].lines))
    /\ LET i == WindowStarts(req[p].lines)[Len(todo[p]) + 1]
           chunk_lines == Window(req[p].lines, i)
       IN  todo' = [todo EXCEPT ![p] =
              Append(@, [i |-> i, chunk_lines |-> chunk_lines,
                         skipped |-> IsBlank(chunk_lines),
                         line_start |-> req[p].start_line + i,
                         line_end |-> req[p].start_line + i + Len(chunk_lines) - 1])]
    /\ UNCHANGED <<indexExists, docs, pc, req, ret, hist>>

\* The range is exhausted: the loop ends; ret[p].hits is the list of the
\* documents it has written.
ChunkEnd(p) ==
    /\ pc[p] = "chunk"
    /\ Len(todo[p]) = Len(WindowStarts(req[p].lines))
    /\ pc' = [pc EXCEPT ![p] = "done"]
    /\ ret' = [ret EXCEPT ![p] = [status |-> "ok", hits |-> ChunkDocs(req[p])]]
    /\ UNCHANGED <<indexExists, docs, req, todo, hist>>

NextChunk == ChunkWindow(1) \/ ChunkEnd(1)

SpecChunk == InitChunk /\ [][NextChunk]_vars

(***************************** properties **********************************)

Done(p) == pc[p] = "done"

IsIndex(r) == r.op \in {"index_file", "index_file_content"}

\* d is a document of the key (user_id, project_name, file_path) of request r.
SameKey(d, r) ==
    d.user_id = r.user /\ d.project_name = r.project /\ d.file_path = r.path

\* The documents of a bag under the key of request r.
KeyDocs(b, r) == Matching(b, {d \in BagToSet(b) : SameKey(d, r)})

\* A call that ended with no step of it raising.
Clean0(p) == Done(p) /\ IsIndex(req[p]) /\ hist[p].fail = "none"

\* The documents the chunkers derive from the content of an indexing request
\* (for an image: from the caption c).
Derived(r, c) ==
    CASE r.kind = "code" ->
           IF LangOf(r.path) = Null THEN <<>>
           ELSE CodeDocs(r.user, r.project, r.path, r.payload.nodes)
      [] r.kind = "document" ->
           IF IsBlank(r.payload.text) THEN <<>>
           ELSE DocumentDocs(r.user, r.project, r.path, r.payload.text)
      [] r.kind = "image" -> <<ImageDoc(r.user, r.project, r.path, c)>>
      [] OTHER -> <<>>

\* b is the document set an indexing call with request r leaves under its key.
Leaves(b, r) == \E c \in Captions : b = SeqToBag(Derived(r, c))

\* C1 (wholesale replace): when an indexing call has ended and no step of it
\* raised, the documents stored under its key (user_id, project_name,
\* file_path) are exactly the documents derived from the content of that
\* call, each once; nothing an earlier indexing of the key wrote remains.
C1_WholesaleReplace ==
    \A p \in Procs : Clean0(p) => Leaves(KeyDocs(docs, req[p]), req[p])

\* C1 witness: a call without failure has replaced two documents of an
\* earlier indexing of the key by one.
C1_Witness ==
    \E p \in Procs :
        /\ Clean0(p)
        /\ BagCardinality(KeyDocs(hist[p].pre, req[p])) = 2
        /\ BagCardinality(KeyDocs(docs, req[p])) = 1

\* What the idempotence of C2 compares of a document: all but the text and the
\* vector, which for an image come from the caption of the vision model.
Meta(d) == [f \in DOMAIN d \ {"code_content", "code_embedding"} |-> d[f]]

MetaBag(b) ==
    LET ms == {Meta(d) : d \in BagToSet(b)}
    IN  [m \in ms |-> BagCardinality(Matching(b, {d \in BagToSet(b) : Meta(d) = m}))]

\* C2 (idempotent re-index): when an indexing call that began in the state an
\* identical call without failure leaves has ended without failure, the key
\* holds the same number of documents with the same line_start, line_end and
\* metadata as before it, and for code and documents the same documents.
C2_IdempotentReindex ==
    \A p \in Procs :
        (Clean0(p) /\ Leaves(KeyDocs(hist[p].pre, req[p]), req[p]))
            => /\ MetaBag(KeyDocs(docs, req[p])) = MetaBag(KeyDocs(hist[p].pre, req[p]))
               /\ req[p].kind # "image"
                    => KeyDocs(docs, req[p]) = KeyDocs(hist[p].pre, req[p])

\* C2 witness: the second of two identical calls has ended, with two chunks.
C2_Witness ==
    \E p \in Procs :
        /\ Clean0(p)
        /\ Leaves(KeyDocs(hist[p].pre, req[p]), req[p])
        /\ hist[p].written = 2

\* C3 (unsupported type rejected before any mutation), as claimed: an indexing
\* request for a path whose extension is in none of the tables, through
\* index_file or index_file_content, ends with the unsupported-type error, and
\* has issued no purge and changed nothing in the store (also when the store
\* answers every request).
C3_UnsupportedRejected ==
    \A p \in Procs :
        (IsIndex(req[p]) /\ Route(req[p].path) = "unsupported" /\ ~hist[p].down)
            => /\ hist[p].purge = "none"
               /\ docs = hist[p].pre
               /\ Done(p) => ret[p].status = "ValueError"

\* C4 (purge precedes every write): a call that passed routing has issued its
\* delete_by_query before its first es.index, and has issued it also when
\* parsing, extraction, description or a chunk failed later.
C4_PurgeFirst ==
    \A p \in Procs :
        IsIndex(req[p]) =>
            /\ hist[p].written > 0 => hist[p].purge = "ok"
            /\ pc[p] \in {"parse", "extract", "describe", "write"} => hist[p].purge = "ok"
            /\ (Done(p) /\ hist[p].fail # "route") => hist[p].purge # "none"
            /\ (Done(p) /\ hist[p].fail \in {"parse", "extract", "describe", "chunk"})
                  => hist[p].purge = "ok"

\* C4 witness: a call whose extraction failed had purged documents of the key.
C4_Witness ==
    \E p \in Procs :
        /\ Done(p) /\ IsIndex(req[p])
        /\ hist[p].fail = "extract"
        /\ hist[p].purge = "ok"
        /\ KeyDocs(hist[p].pre, req[p]) # EmptyBag

\* C5 (errors from routing or extraction abort before any purge or write), as
\* claimed: when routing, extraction, parsing or description raised, the store
\* is as it was before the call.
C5_NoPurgeOnError ==
    \A p \in Procs :
        (Done(p) /\ IsIndex(req[p])
            /\ hist[p].fail \in {"route", "parse", "extract", "describe"})
            => docs = hist[p].pre

\* C5 amended: when routing raised, the store is as it was before the call and
\* no purge was issued; when extraction, parsing or description raised, the
\* purge had run: the store is the one before the call without the documents
\* of the key.
C5_PurgeOnlyAfterRouting ==
    \A p \in Procs :
        (Done(p) /\ IsIndex(req[p])) =>
            /\ hist[p].fail = "route"
                  => docs = hist[p].pre /\ hist[p].purge = "none"
            /\ hist[p].fail \in {"parse", "extract", "describe"}
                  => docs = Matching(hist[p].pre,
                               {d \in BagToSet(hist[p].pre) : ~SameKey(d, req[p])})

\* C5 witness: routing raised on a store that holds documents.
C5_Witness ==
    \E p \in Procs :
        /\ Done(p) /\ IsIndex(req[p])
        /\ hist[p].fail = "route"
        /\ docs # EmptyBag

\* C6 (destructive on failure, with the error surfaced), as claimed: when
\* parsing, extraction or description raised, the caller got an error and the
\* key holds no document, on the code, document and image paths.
C6_FailureSurfaced ==
    \A p \in Procs :
        (Done(p) /\ IsIndex(req[p])
            /\ hist[p].fail \in {"parse", "extract", "describe"})
            => /\ ret[p].status = "error"
               /\ KeyDocs(docs, req[p]) = EmptyBag

\* C7 (partial write on a chunk failure), as claimed: when the embedding or
\* the write of the k-th chunk raised, the k-1 chunks before it are what the key
\* holds, the later ones are unwritten, and the caller got an error, on the
\* code path and on the document path.
C7_PartialWriteSurfaced ==
    \A p \in Procs :
        (Done(p) /\ IsIndex(req[p]) /\ hist[p].fail = "chunk")
            => /\ \E c \in Captions :
                    /\ Derived(req[p], c) = Take(Derived(req[p], c), hist[p].written)
                                               \o todo[p]
                    /\ KeyDocs(docs, req[p])
                          = SeqToBag(Take(Derived(req[p], c), hist[p].written))
               /\ todo[p] # <<>>
               /\ ret[p].status = "error"

\* C8 (search after clean with delete_all), as claimed: a clean with
\* delete_all leaves no document, and a search that begins in the state it
\* leaves, with the store answering, returns an empty result and no failure.
C8_SearchAfterDeleteAll ==
    \A p \in Procs :
        /\ (Done(p) /\ req[p].op = "clean" /\ req[p].delete_all /\ ret[p].status = "ok")
              => docs = EmptyBag
        /\ (Done(p) /\ req[p].op = "search" /\ ~hist[p].preExists /\ ~hist[p].down)
              => ret[p].status = "ok" /\ ret[p].hits = <<>>

\* The documents a Stage-2 query for request r may return.
LexicalCandidates(r) ==
    Matching(docs, {d \in BagToSet(docs) :
                      ScopeFilter(d, r.user, r.project) /\ LexMatch(d, r.query)})

\* C9 (fallback activation): when the Stage-1 fetch raised and the Stage-2
\* query succeeded, search returns the Stage-2 results and no failure: top_k
\* (or all, if fewer) of the documents of the user (and the project, if one
\* was given) that match the query, requested under the filter of Stage 1.
C9_FallbackActivation ==
    \A p \in Procs :
        (Done(p) /\ req[p].op = "search"
            /\ hist[p].s1 = "fetch_raised" /\ hist[p].s2 = "ok")
            => /\ ret[p].status = "ok"
               /\ hist[p].f2 = hist[p].f1
               /\ hist[p].f2 = [user |-> req[p].user, project |-> req[p].project]
               /\ Len(ret[p].hits)
                     = Min(req[p].top_k, BagCardinality(LexicalCandidates(req[p])))
               /\ \A i \in 1..Len(ret[p].hits) :
                     \E d \in BagToSet(LexicalCandidates(req[p])) :
                        ret[p].hits[i].source = Source(d, Stage2Fields)

\* C9 witness: a fallback search in one project has returned a document.
C9_Witness ==
    \E p \in Procs :
        /\ Done(p) /\ req[p].op = "search"
        /\ hist[p].s1 = "fetch_raised" /\ hist[p].s2 = "ok"
        /\ req[p].project # Null
        /\ ret[p].hits # <<>>

HitScore(r, h) == Cosine(Encode(<<r.query>>), h.code_embedding)

\* score < MIN_SIMILARITY_THRESHOLD
Below(a) ==
    \/ a.num <= 0
    \/ ThresholdDen * ThresholdDen * a.num * a.num < ThresholdNum * ThresholdNum * a.den2

\* Every hit of the Stage-1 fetch has a stored embedding.
AllEmbedded(p) == \A h \in BagToSet(hist[p].fetched) : "code_embedding" \in DOMAIN h

\* C11 (an empty Stage-1 outcome is not a failure): when the Stage-1 fetch of
\* a search returned and either fetched no candidate or every candidate it
\* fetched scores under MIN_SIMILARITY_THRESHOLD, the search has ended with an
\* empty result list and no failure, after one store request and without a
\* Stage-2 query.
C11_EmptyStage1NotFailure ==
    \A p \in Procs :
        (/\ req[p].op = "search"
         /\ hist[p].s1 \notin {"none", "fetch_raised"}
         /\ AllEmbedded(p)
         /\ \A h \in BagToSet(hist[p].fetched) : Below(HitScore(req[p], h)))
            => /\ Done(p)
               /\ ret[p].status = "ok"
               /\ ret[p].hits = <<>>
               /\ hist[p].s2 = "none"
               /\ hist[p].requests = 1

\* C11 witness: a search for more than zero results fetched candidates, all
\* under the threshold, and ended with an empty list.
C11_Witness ==
    \E p \in Procs :
        /\ Done(p) /\ req[p].op = "search" /\ req[p].top_k > 0
        /\ hist[p].s1 = "ok"
        /\ hist[p].fetched # EmptyBag
        /\ \A h \in BagToSet(hist[p].fetched) : Below(HitScore(req[p], h))
        /\ ret[p].status = "ok" /\ ret[p].hits = <<>>

\* C12 (a Stage-2 failure is terminal): a search issues at most two store
\* requests, the second only as its Stage-2 query; when its Stage-1 fetch and
\* its Stage-2 query both raised, it has ended with a failure and no results,
\* after exactly two requests.
C12_Stage2FailureTerminal ==
    \A p \in Procs :
        req[p].op = "search" =>
            /\ hist[p].requests <= 2
            /\ hist[p].requests = 2 => hist[p].s2 # "none"
            /\ hist[p].s2 # "none" => Done(p)
            /\ (hist[p].s1 = "fetch_raised" /\ hist[p].s2 = "raised")
                  => /\ Done(p)
                     /\ ret[p].status = "failed"
                     /\ ret[p].hits = <<>>
                     /\ hist[p].requests = 2

\* C12 witness: both queries of a search raised on a store that holds
\* documents of the user, and the search ended with a failure.
C12_Witness ==
    \E p \in Procs :
        /\ Done(p) /\ req[p].op = "search"
        /\ hist[p].s1 = "fetch_raised" /\ hist[p].s2 = "raised"
        /\ hist[p].requests = 2
        /\ ret[p].status = "failed"
        /\ \E d \in BagToSet(docs) : d.user_id = req[p].user

\* d, a stored document or the _source of a hit, is in the scope of request r.
InScope(d, r) ==
    /\ d.user_id = r.user
    /\ r.project # Null => d.project_name = r.project

\* C13 (search scope isolation): whatever the index and clean calls before it
\* have left in the store, every hit a search returns is of a document whose
\* user_id is the user of the search and, when a project was given, whose
\* project_name is that project: the hits of Stage 1 by their _source, the
\* hits of Stage 2 by the documents they are hits of.
C13_ScopeIsolation ==
    \A p \in Procs :
        (Done(p) /\ req[p].op = "search" /\ ret[p].status = "ok") =>
            /\ hist[p].s2 = "none"
                  => \A i \in 1..Len(ret[p].hits) : InScope(ret[p].hits[i].source, req[p])
            /\ \A h \in BagToSet(hist[p].fetched) : InScope(h, req[p])
            /\ hist[p].s2 = "ok"
                  => /\ BagCardinality(hist[p].answered) = Len(ret[p].hits)
                     /\ \A d \in BagToSet(hist[p].answered) : InScope(d, req[p])

\* C13 witness: a search in one project has returned a hit while the store
\* holds a document of another user and one of the same user in another
\* project.
C13_Witness ==
    \E p \in Procs :
        /\ Done(p) /\ req[p].op = "search" /\ ret[p].status = "ok"
        /\ req[p].project # Null
        /\ ret[p].hits # <<>>
        /\ \E d \in BagToSet(docs) : d.user_id # req[p].user
        /\ \E d \in BagToSet(docs) :
              d.user_id = req[p].user /\ d.project_name # req[p].project

\* a > b for two similarities.
ScoreGt(a, b) == ~ScoreGe(b, a)

\* The fetched hits of the search in slot p that score more than s.
FetchedAbove(p, s) ==
    Matching(hist[p].fetched,
             {h \in BagToSet(hist[p].fetched) : ScoreGt(HitScore(req[p], h), s)})

\* C14 (monotonic ranking with threshold): in the result list of a search
\* that ended at Stage 1, every hit is a fetched candidate with its similarity
\* to the query as score, the scores do not increase along the list, each is at
\* least MIN_SIMILARITY_THRESHOLD, and the fetched candidates that score more
\* than a returned hit are all returned before it.
C14_MonotonicRanking ==
    \A p \in Procs :
        (Done(p) /\ req[p].op = "search" /\ hist[p].s1 = "ok") =>
            LET hits == ret[p].hits
            IN  /\ \A i \in 1..Len(hits) :
                      \E h \in BagToSet(hist[p].fetched) :
                         /\ hits[i].source = Source(h, DOMAIN h \ {"code_embedding"})
                         /\ hits[i].score = HitScore(req[p], h)
                /\ \A i \in 1..(Len(hits) - 1) : ScoreGe(hits[i].score, hits[i + 1].score)
                /\ \A i \in 1..Len(hits) : ~Below(hits[i].score)
                /\ \A i \in 1..Len(hits) :
                      BagCardinality(FetchedAbove(p, hits[i].score))
                         = Cardinality({j \in 1..(i - 1) :
                                          ScoreGt(hits[j].score, hits[i].score)})

\* C14 witness: a result list of two hits of different scores, cut from
\* fetched candidates of which a third passed the threshold and a fourth did
\* not.
C14_Witness ==
    \E p \in Procs :
        /\ Done(p) /\ req[p].op = "search" /\ hist[p].s1 = "ok"
        /\ Len(ret[p].hits) = 2
        /\ ScoreGt(ret[p].hits[1].score, ret[p].hits[2].score)
        /\ BagCardinality(Matching(hist[p].fetched,
              {h \in BagToSet(hist[p].fetched) : ~Below(HitScore(req[p], h))})) > 2
        /\ \E h \in BagToSet(hist[p].fetched) : Below(HitScore(req[p], h))

\* C15 (bounded results): a search that ended with results, from Stage 1 or
\* from Stage 2, returns at most top_k of them, for every top_k >= 0 and
\* whatever the store holds.
C15_BoundedResults ==
    \A p \in Procs :
        (Done(p) /\ req[p].op = "search" /\ req[p].top_k >= 0)
            => Len(ret[p].hits) <= req[p].top_k

\* C15 witness: a Stage-2 answer of top_k hits to a query that more than
\* top_k documents of the scope match.
C15_Witness ==
    \E p \in Procs :
        /\ Done(p) /\ req[p].op = "search" /\ hist[p].s2 = "ok"
        /\ req[p].top_k > 0
        /\ Len(ret[p].hits) = req[p].top_k
        /\ BagCardinality(LexicalCandidates(req[p])) > req[p].top_k

\* C16 (the stored embedding is never exposed): no hit a search returns, from
\* Stage 1 or from Stage 2, has the field code_embedding in its _source.
C16_EmbeddingNotExposed ==
    \A p \in Procs :
        req[p].op = "search" =>
            \A i \in 1..Len(ret[p].hits) :
                "code_embedding" \notin DOMAIN ret[p].hits[i].source

\* C16 witness: Stage 1 has returned a hit of a candidate that was fetched
\* with its embedding.
C16_Witness ==
    \E p \in Procs :
        /\ Done(p) /\ req[p].op = "search" /\ hist[p].s1 = "ok"
        /\ ret[p].hits # <<>>
        /\ \A h \in BagToSet(hist[p].fetched) : "code_embedding" \in DOMAIN h
        /\ "file_path" \in DOMAIN ret[p].hits[1].source

(***************************** lifecycle properties ************************)

\* A clean_index call for a user and a project, without delete_all, that has
\* returned.
ScopedCleanDone(p) ==
    /\ Done(p) /\ req[p].op = "clean" /\ ~req[p].delete_all
    /\ req[p].user # Null /\ req[p].project # Null
    /\ ret[p].status = "ok"

\* d is a document of the user and the project of request r.
InProject(d, r) == d.user_id = r.user /\ d.project_name = r.project

\* C17 (scoped cleanup): when clean_index(user, project) without delete_all
\* has returned, the store holds what it held before the call without the
\* documents whose user_id and project_name both match: none of those is left,
\* and the documents of the user in other projects and of other users are all
\* there, as many times as before.
C17_ScopedCleanup ==
    \A p \in Procs :
        ScopedCleanDone(p) =>
            /\ \A d \in BagToSet(docs) : ~InProject(d, req[p])
            /\ \A d \in BagToSet(hist[p].pre) :
                  ~InProject(d, req[p]) => d \in BagToSet(docs) /\ docs[d] = hist[p].pre[d]
            /\ \A d \in BagToSet(docs) : d \in BagToSet(hist[p].pre)

\* C17 witness: the clean removed documents of its project from a store that
\* also held documents of the user in another project and of another user.
C17_Witness ==
    \E p \in Procs :
        /\ ScopedCleanDone(p)
        /\ \E d \in BagToSet(hist[p].pre) : InProject(d, req[p])
        /\ \E d \in BagToSet(docs) :
              d.user_id = req[p].user /\ d.project_name # req[p].project
        /\ \E d \in BagToSet(docs) : d.user_id # req[p].user

\* A step in which _create_index_if_not_exists ran on its own: the process
\* restarted, no call was in flight.
EnsureStep == UNCHANGED <<pc, req, todo, ret, hist>>

\* A step in which slot p ran recreate_index.
RecreateStep(p) == pc[p] = "idle" /\ pc'[p] = "done" /\ req'[p].op = "recreate"

\* C18 (lifecycle): _create_index_if_not_exists creates the index, empty, only
\* when there is none, and leaves an index that exists and all its documents
\* as they are, so that running it twice is the same as running it once;
\* recreate_index ends with the index existing and holding no document,
\* whether or not it existed before.
C18_Lifecycle ==
    [][/\ EnsureStep =>
             /\ indexExists'
             /\ IF indexExists THEN docs' = docs ELSE docs' = EmptyBag
             /\ EnsureIndex([exists |-> indexExists', docs |-> docs'])
                   = [exists |-> indexExists', docs |-> docs']
       /\ \A p \in Procs :
             RecreateStep(p) => indexExists' /\ docs' = EmptyBag]_vars

\* C18 witness: recreate_index has ended on an index that held documents.
C18_Witness ==
    \E p \in Procs :
        /\ Done(p) /\ req[p].op = "recreate"
        /\ hist[p].preExists /\ hist[p].pre # EmptyBag
        /\ indexExists /\ docs = EmptyBag

(***************************** vision properties ***************************)

\* An indexing call on the image path.
IsImage(r) == IsIndex(r) /\ r.kind = "image"

\* What the retry loop of describe_image has done so far in slot p: at most 3
\* provider calls; every call but the last one made failed with a retryable
\* error and was followed by a sleep, of 2 seconds after the first and of 4
\* after the second; while the loop runs, the last call too was such a
\* failure and fewer than 3 calls were made; once it is left, no sleep
\* followed the last call, and the loop was left by a caption, by a failure
\* that is not retryable, or by the third retryable failure.
RetryShape(p) ==
    LET o == hist[p].outcomes
        n == Len(o)
        w == hist[p].waits
    IN  /\ hist[p].attempts = n
        /\ n <= 3
        /\ \A i \in 1..(n - 1) : o[i] = "retryable"
        /\ w = SubSeq(<<2, 4>>, 1, Len(w))
        /\ pc[p] = "describe"
              => /\ n < 3
                 /\ Len(w) = n
                 /\ \A i \in 1..n : o[i] = "retryable"
        /\ (pc[p] # "describe" /\ n > 0)
              => /\ Len(w) = n - 1
                 /\ o[n] = "caption" => hist[p].fail # "describe"
                 /\ o[n] # "caption" => Done(p) /\ hist[p].fail = "describe"
                 /\ o[n] = "retryable" => n = 3

\* C19 (bounded retry of the vision describer): every describe_image call
\* has the shape RetryShape, and it ends: a call that is in its retry loop
\* leaves it, by a caption or by raising, also when every provider call fails.
C19_BoundedRetry ==
    /\ [](\A p \in Procs : IsImage(req[p]) => RetryShape(p))
    /\ \A p \in Procs : (pc[p] = "describe") ~> (pc[p] # "describe")

\* C19 witness: the third provider call failed like the two before it, with
\* a retryable error, and describe_image raised after sleeps of 2 and 4
\* seconds.
C19_Witness ==
    \E p \in Procs :
        /\ Done(p) /\ IsImage(req[p])
        /\ hist[p].outcomes = <<"retryable", "retryable", "retryable">>
        /\ hist[p].waits = <<2, 4>>
        /\ hist[p].fail = "describe"

(***************************** chunking properties *************************)

\* The windows that hold line index n (counted from 0) of the text.
Covering(ws, n) ==
    {k \in 1..Len(ws) : ws[k].i <= n /\ n < ws[k].i + Len(ws[k].chunk_lines)}

\* C20 (chunk coverage): when the chunk loop has run over a list of L lines,
\* each line index 0..L-1 is in exactly one of its windows (blank windows
\* included), a window holds the lines of the text at its indices and nothing
\* else, the windows come in increasing order, and every window has
\* CHUNK_SIZE lines except the last, which has between 1 and CHUNK_SIZE.
C20_ChunkCoverage ==
    \A p \in Procs :
        (Done(p) /\ req[p].op = "chunk") =>
            LET lines == req[p].lines
                ws == todo[p]
            IN  /\ \A n \in 0..(Len(lines) - 1) : Cardinality(Covering(ws, n)) = 1
                /\ \A k \in 1..Len(ws) :
                      /\ ws[k].i >= 0
                      /\ ws[k].i + Len(ws[k].chunk_lines) <= Len(lines)
                      /\ \A j \in 1..Len(ws[k].chunk_lines) :
                            ws[k].chunk_lines[j] = lines[ws[k].i + j]
                /\ \A k \in 1..(Len(ws) - 1) :
                      /\ ws[k].i < ws[k + 1].i
                      /\ Len(ws[k].chunk_lines) = CHUNK_SIZE
                /\ ws # <<>> =>
                      /\ Len(ws[Len(ws)].chunk_lines) >= 1
                      /\ Len(ws[Len(ws)].chunk_lines) <= CHUNK_SIZE

\* C20 witness: a text of two full windows and one line more was chunked
\* into three windows, the last of one line.
C20_Witness ==
    \E p \in Procs :
        /\ Done(p) /\ req[p].op = "chunk"
        /\ Len(req[p].lines) = 2 * CHUNK_SIZE + 1
        /\ Len(todo[p]) = 3
        /\ Len(todo[p][3].chunk_lines) = 1

\* The windows of ws that the loop did not skip, in order.
RECURSIVE Kept(_)
Kept(ws) ==
    IF ws = <<>> THEN <<>>
    ELSE IF Head(ws).skipped THEN Kept(Tail(ws))
    ELSE <<Head(ws)>> \o Kept(Tail(ws))

\* C21 (absolute line offsets): when the chunk loop has run over a node that
\* starts at line start_line (0 for a document), the window of index i (from
\* 0) has line_start = start_line + i * CHUNK_SIZE and line_end = line_start +
\* (its lines - 1); the documents written are those of the windows that were
\* not skipped, with these line numbers whatever was skipped before them; a
\* function foo of 25 lines gives exactly 2 documents, of relative lines 0-19
\* and 20-24, with function_name foo and class_name null.
C21_AbsoluteLineOffsets ==
    \A p \in Procs :
        (Done(p) /\ req[p].op = "chunk") =>
            LET r == req[p]
                ws == todo[p]
                out == ret[p].hits
            IN  /\ \A k \in 1..Len(ws) :
                      /\ ws[k].line_start = r.start_line + (k - 1) * CHUNK_SIZE
                      /\ ws[k].line_end = ws[k].line_start + Len(ws[k].chunk_lines) - 1
                /\ Len(out) = Len(Kept(ws))
                /\ \A n \in 1..Len(out) :
                      /\ out[n].line_start = r.start_line + Kept(ws)[n].i
                      /\ out[n].line_end = out[n].line_start + Len(out[n].code_content) - 1
                      /\ out[n].code_content = Kept(ws)[n].chunk_lines
                /\ (r.kind = "code" /\ r.type = "function" /\ Len(r.lines) = 25)
                      => /\ Len(out) = 2
                         /\ out[1].line_start = r.start_line
                         /\ out[1].line_end = r.start_line + 19
                         /\ out[2].line_start = r.start_line + 20
                         /\ out[2].line_end = r.start_line + 24
                         /\ \A n \in 1..2 :
                               out[n].function_name = r.name /\ out[n].class_name = Null

\* C21 witness: the second window of a node was skipped as blank and its
\* third window was written, with line_start 2 * CHUNK_SIZE.
C21_Witness ==
    \E p \in Procs :
        /\ Done(p) /\ req[p].op = "chunk" /\ req[p].kind = "code"
        /\ Len(todo[p]) = 3
        /\ todo[p][2].skipped
        /\ Len(ret[p].hits) = 2
        /\ ret[p].hits[2].line_start = req[p].start_line + 2 * CHUNK_SIZE

(***************************** concurrency properties **********************)

\* s without its first n elements.
Drop(s, n) == SubSeq(s, Min(n, Len(s)) + 1, Len(s))

\* The documents of the content of the indexing call in slot p, in the order
\* the call writes them.
CallDocs(p) == Derived(req[p], "foo")

\* Two indexing calls of one key have both ended, with no step of either
\* raising.
BothIndexed ==
    /\ \A p \in Procs : Clean0(p) /\ hist[p].purge = "ok"
    /\ \A p, q \in Procs : req[p].path = req[q].path

\* Neither call had written a document when the other purged.
PurgesFirst == \A p \in Procs : hist[p].peer.written = 0

\* C22 (racing re-index produces duplicates): when two indexing calls of one
\* key have run at once and ended without failure, the key holds, of each
\* call, the documents it wrote after the purge of the other.  When both
\* purges came before either call's first write, that is all the documents of
\* both calls (each twice, if the contents are the same), a set that neither
\* order of running the two calls one after the other leaves.
C22_RaceDuplicates ==
    BothIndexed =>
        /\ KeyDocs(docs, req[1])
              = SeqToBag(Drop(CallDocs(1), hist[2].peer.written))
                  (+) SeqToBag(Drop(CallDocs(2), hist[1].peer.written))
        /\ PurgesFirst =>
              /\ KeyDocs(docs, req[1]) = SeqToBag(CallDocs(1)) (+) SeqToBag(CallDocs(2))
              /\ KeyDocs(docs, req[1]) \notin {SeqToBag(CallDocs(1)), SeqToBag(CallDocs(2))}

\* C22 witness: two calls with the same content of two chunks have ended,
\* both purges came first, and the key holds every chunk twice.
C22_Witness ==
    /\ BothIndexed /\ PurgesFirst
    /\ req[1].payload = req[2].payload
    /\ Len(CallDocs(1)) = 2
    /\ BagCardinality(KeyDocs(docs, req[1])) = 4
    /\ \A d \in BagToSet(docs) : SameKey(d, req[1]) => docs[d] = 2

\* The hits of the Stage-1 fetch of slot p that are of file path.
FetchedOfFile(p, path) ==
    Matching(hist[p].fetched, {h \in BagToSet(hist[p].fetched) : h.file_path = path})

\* The _source records a Stage-1 fetch returns for the documents ds.
Sources(ds) == SeqToBag([i \in 1..Len(ds) |-> Source(ds[i], Stage1Fields)])

\* The Stage-1 fetch of the search in slot p returned while the other slot
\* was in an indexing call, after its purge and before its last write.
FetchedInFlight(p) ==
    /\ req[p].op = "search"
    /\ hist[p].s1 = "ok"
    /\ IsIndex(hist[p].peer.req)
    /\ hist[p].peer.purge = "ok"
    /\ hist[p].peer.pc \in {"parse", "extract", "write"}

\* C23 (torn read during re-index): a search whose fetch runs between the
\* purge and the last write of an indexing call in flight gets, of that file,
\* exactly the documents the call has written so far: none or the first
\* ones, and fewer than the call leaves.
C23_TornRead ==
    \A p \in Procs :
        FetchedInFlight(p) =>
            LET r == hist[p].peer.req
                new == Derived(r, "foo")
                seen == FetchedOfFile(p, r.path)
            IN  /\ seen = Sources(Take(new, hist[p].peer.written))
                /\ hist[p].peer.pc = "write" =>
                      /\ hist[p].peer.written < Len(new)
                      /\ BagCardinality(seen) < Len(new)

\* C23 witness: the search got one document of a file that held two before
\* the indexing call in the other slot and holds two after it.
C23_Witness ==
    \E p, q \in Procs :
        /\ p # q
        /\ FetchedInFlight(p) /\ Done(p)
        /\ Clean0(q) /\ req[q] = hist[p].peer.req
        /\ BagCardinality(KeyDocs(hist[q].pre, req[q])) = 2
        /\ BagCardinality(FetchedOfFile(p, req[q].path)) = 1
        /\ BagCardinality(KeyDocs(docs, req[q])) = 2

(***************************** stored documents ****************************)

\* An indexing call on the document path whose extraction returned a text
\* that is empty or blank has ended.
BlankDocumentDone(p) ==
    /\ Done(p) /\ IsIndex(req[p]) /\ req[p].kind = "document"
    /\ hist[p].purge = "ok"
    /\ ~req[p].payload.corrupt
    /\ \A i \in 1..Len(req[p].payload.text) : req[p].payload.text[i] \in BlankLines

\* C24 (empty extracted text): indexing a document whose extracted text is
\* empty or whitespace-only returns without error and writes no document; the
\* store is then what it was before the call without the documents of the
\* key, which the purge has removed.
C24_EmptyTextNoWrite ==
    \A p \in Procs :
        BlankDocumentDone(p) =>
            /\ ret[p].status = "ok"
            /\ hist[p].fail = "none"
            /\ hist[p].written = 0
            /\ todo[p] = <<>>
            /\ docs = Matching(hist[p].pre,
                         {d \in BagToSet(hist[p].pre) : ~SameKey(d, req[p])})

\* C24 witness: a blank document was indexed over a file that held
\* documents, with no error and nothing written.
C24_Witness ==
    \E p \in Procs :
        /\ BlankDocumentDone(p)
        /\ ret[p].status = "ok" /\ hist[p].written = 0
        /\ KeyDocs(hist[p].pre, req[p]) # EmptyBag

\* C25 (no stored document is empty), as claimed: every document of the
\* store, of the code, document or image path, has a code_content that is
\* not blank.
C25_NoEmptyDocument ==
    \A d \in BagToSet(docs) :
        \E i \in 1..Len(d.code_content) : d.code_content[i] \notin BlankLines

\* C26 (chunk metadata by content type): in every store state a code
\* document has exactly one of class_name and function_name set, a language
\* and line numbers with line_start <= line_end; a document of a text has no
\* class_name, function_name or language, and line numbers; a document of an
\* image has none of the five; and an indexing call of an image that ended
\* without failure leaves exactly one document for the file.
C26_MetadataByType ==
    /\ \A d \in BagToSet(docs) :
          /\ d.content_type \in {"code", "document", "image"}
          /\ d.content_type = "code" =>
                /\ (d.class_name = Null) # (d.function_name = Null)
                /\ d.language # Null
                /\ d.line_start # NullLine /\ d.line_end # NullLine
                /\ d.line_start <= d.line_end
          /\ d.content_type = "document" =>
                /\ d.class_name = Null /\ d.function_name = Null /\ d.language = Null
                /\ d.line_start # NullLine /\ d.line_end # NullLine
          /\ d.content_type = "image" =>
                /\ d.class_name = Null /\ d.function_name = Null /\ d.language = Null
                /\ d.line_start = NullLine /\ d.line_end = NullLine
    /\ \A p \in Procs :
          (Clean0(p) /\ req[p].kind = "image")
              => BagCardinality(KeyDocs(docs, req[p])) = 1

\* C26 witness: an image was indexed over an earlier document of it, and
\* the store holds documents of the three content types, of a class and of a
\* function.
C26_Witness ==
    \E p \in Procs :
        /\ Clean0(p) /\ req[p].kind = "image"
        /\ KeyDocs(hist[p].pre, req[p]) # EmptyBag
        /\ \A t \in {"code", "document", "image"} :
              \E d \in BagToSet(docs) : d.content_type = t
        /\ \E d \in BagToSet(docs) : d.class_name # Null
        /\ \E d \in BagToSet(docs) : d.function_name # Null

\* C27 (clean without a user, clean with delete_all): a clean_index call
\* without delete_all and without a user ends with an error and has changed
\* nothing in the store, having made no request to it; a call with
\* delete_all that returns has dropped the index with all it held, whatever
\* user and project it was given.
C27_CleanArguments ==
    \A p \in Procs :
        (Done(p) /\ req[p].op = "clean") =>
            /\ (~req[p].delete_all /\ req[p].user = Null)
                  => /\ ret[p].status = "ValueError"
                     /\ docs = hist[p].pre
                     /\ indexExists = hist[p].preExists
                     /\ ~hist[p].down
            /\ (req[p].delete_all /\ ret[p].status = "ok")
                  => ~indexExists /\ docs = EmptyBag

\* C27 witness: a clean with delete_all, given one user and one project, has
\* dropped an index that held documents of another user.
C27_Witness ==
    \E p \in Procs :
        /\ Done(p) /\ req[p].op = "clean" /\ req[p].delete_all
        /\ req[p].user # Null /\ req[p].project # Null
        /\ ret[p].status = "ok"
        /\ \E d \in BagToSet(hist[p].pre) : d.user_id # req[p].user
        /\ ~indexExists /\ docs = EmptyBag

\* C28 (routing and chunking agree on the extension), as claimed: when
\* index_file has routed a file to the code path and the call has ended with
\* no step raising, on a content with a class or function that is not blank,
\* the file has at least one document.
C28_RouterChunkerAgree ==
    \A p \in Procs :
        (/\ Done(p) /\ req[p].op = "index_file" /\ req[p].kind = "code"
         /\ hist[p].fail = "none" /\ ret[p].status = "ok"
         /\ \E n \in 1..Len(req[p].payload.nodes) :
               \E i \in 1..Len(req[p].payload.nodes[n].content) :
                  req[p].payload.nodes[n].content[i] \notin BlankLines)
            => KeyDocs(docs, req[p]) # EmptyBag

\* C29 (the collection stays available), as claimed: the index exists
\* whenever an indexing call or a search begins, and an indexing call that
\* begins after a clean with delete_all, with the store answering, ends with
\* the documents of the file stored.
C29_CollectionAvailable ==
    \A p \in Procs :
        /\ (IsIndex(req[p]) \/ req[p].op = "search") => hist[p].preExists
        /\ (Done(p) /\ IsIndex(req[p]) /\ Route(req[p].path) # "unsupported"
               /\ ~hist[p].down /\ hist[p].fail \in {"none", "purge"})
              => Leaves(KeyDocs(docs, req[p]), req[p])

\* The documents of a bag that are not under the key of request r.
OtherDocs(b, r) == Matching(b, {d \in BagToSet(b) : ~SameKey(d, r)})

\* C30 (frame of indexing): at every step of an indexing call, and when it
\* has ended, with or without failure, the documents whose user_id,
\* project_name or file_path differs from the key of the call are those the
\* store held when the call began, each as many times.
C30_IndexingFrame ==
    \A p \in Procs :
        IsIndex(req[p]) =>
            /\ OtherDocs(docs, req[p]) = OtherDocs(hist[p].pre, req[p])
            /\ \A i \in 1..Len(todo[p]) : SameKey(todo[p][i], req[p])

\* C30 witness: a call has replaced the documents of its file while the
\* store held the same path in another project and for another user.
C30_Witness ==
    \E p \in Procs :
        /\ Done(p) /\ IsIndex(req[p])
        /\ hist[p].written > 0
        /\ KeyDocs(hist[p].pre, req[p]) # EmptyBag
        /\ KeyDocs(hist[p].pre, req[p]) # KeyDocs(docs, req[p])
        /\ \E d \in BagToSet(docs) :
              d.file_path = req[p].path /\ d.user_id = req[p].user
                 /\ d.project_name # req[p].project
        /\ \E d \in BagToSet(docs) :
              d.file_path = req[p].path /\ d.user_id # req[p].user

====
